---- MODULE Spec2Model ----
(***************************************************************************)
(* Model of the live spatial-understanding client (App component):         *)
(* the detection parser and identity tracker (processTextForBoxes), the    *)
(* pruning sweep, the audio playback scheduler inside onmessage, the       *)
(* transcript accumulation, and the session life cycle (startSession,      *)
(* its channel callbacks, stopSession).                                    *)
(*                                                                         *)
(* Text is a sequence of one-character strings.  Times are integers:       *)
(* `now' is Date.now() in milliseconds, `clock' is the currentTime of the  *)
(* output AudioContext in abstract units.                                  *)
(***************************************************************************)
EXTENDS Integers, Sequences, FiniteSets, TLC

(***************************************************************************)
(* Characters and the character classes of the regular expression.         *)
(***************************************************************************)
LowerCase == <<"a","b","c","d","e","f","g","h","i","j","k","l","m",
               "n","o","p","q","r","s","t","u","v","w","x","y","z">>
UpperCase == <<"A","B","C","D","E","F","G","H","I","J","K","L","M",
               "N","O","P","Q","R","S","T","U","V","W","X","Y","Z">>
DigitChars == <<"0","1","2","3","4","5","6","7","8","9">>

Range(s) == {s[i] : i \in DOMAIN s}
LetterSet == Range(LowerCase) \cup Range(UpperCase)
\* the code units that \s and String.prototype.trim take as white space; those
\* that have no escape in a string of this module are written by their code point
SpaceSet == {" ", "\t", "\n", "\f", "\r", "U+000B", "U+00A0", "U+1680",
             "U+2000", "U+2001", "U+2002", "U+2003", "U+2004", "U+2005", "U+2006",
             "U+2007", "U+2008", "U+2009", "U+200A", "U+2028", "U+2029", "U+202F",
             "U+205F", "U+3000", "U+FEFF"}
DigitSet == Range(DigitChars)
LabelCharSet == LetterSet \cup SpaceSet

\* [a-zA-Z]
IsLetter(c) == c \in LetterSet
\* \s
IsSpace(c) == c \in SpaceSet
\* \d
IsDigit(c) == c \in DigitSet
\* [a-zA-Z\s]
IsLabelChar(c) == c \in LabelCharSet

DigitValue == [c \in DigitSet |-> (CHOOSE i \in DOMAIN DigitChars : DigitChars[i] = c) - 1]
DigitVal(c) == DigitValue[c]

\* String.prototype.toLowerCase on one character
LowerOf == [c \in Range(UpperCase) |->
               LowerCase[CHOOSE i \in DOMAIN UpperCase : UpperCase[i] = c]]
LowerChar(c) == IF c \in DOMAIN LowerOf THEN LowerOf[c] ELSE c
toLowerCase(s) == [i \in DOMAIN s |-> LowerChar(s[i])]

\* parseInt of a run of decimal digits buf[i..j]
RECURSIVE parseInt(_, _, _)
parseInt(buf, i, j) ==
    IF j < i THEN 0 ELSE 10 * parseInt(buf, i, j - 1) + DigitVal(buf[j])

\* first index >= i whose character is not a digit (Len+1 at the end)
RECURSIVE DigitsEnd(_, _)
DigitsEnd(buf, i) ==
    IF i > Len(buf) \/ ~IsDigit(buf[i]) THEN i ELSE DigitsEnd(buf, i + 1)
\* first index >= i whose character is not white space
RECURSIVE SpacesEnd(_, _)
SpacesEnd(buf, i) ==
    IF i > Len(buf) \/ ~IsSpace(buf[i]) THEN i ELSE SpacesEnd(buf, i + 1)
\* first index >= i whose character is neither a letter nor white space
RECURSIVE LabelEnd(_, _)
LabelEnd(buf, i) ==
    IF i > Len(buf) \/ ~IsLabelChar(buf[i]) THEN i ELSE LabelEnd(buf, i + 1)

CharAt(buf, i) == IF i \in DOMAIN buf THEN buf[i] ELSE "EOF"

NoMatch == [ok |-> FALSE, end |-> 0, nums |-> <<>>]

(***************************************************************************)
(* \[(\d+),\s*(\d+),\s*(\d+),\s*(\d+)\] tried at index j.  Every           *)
(* quantified class is followed by a character outside the class, so the   *)
(* greedy runs are the only way to match.  `end' is the index after "]".   *)
(***************************************************************************)
MatchBracket(buf, j) ==
    IF CharAt(buf, j) # "[" THEN NoMatch ELSE
    LET a1 == j + 1
        a2 == DigitsEnd(buf, a1)
        b1 == SpacesEnd(buf, a2 + 1)
        b2 == DigitsEnd(buf, b1)
        c1 == SpacesEnd(buf, b2 + 1)
        c2 == DigitsEnd(buf, c1)
        d1 == SpacesEnd(buf, c2 + 1)
        d2 == DigitsEnd(buf, d1)
    IN  IF /\ a2 > a1 /\ CharAt(buf, a2) = ","
           /\ b2 > b1 /\ CharAt(buf, b2) = ","
           /\ c2 > c1 /\ CharAt(buf, c2) = ","
           /\ d2 > d1 /\ CharAt(buf, d2) = "]"
        THEN [ok |-> TRUE, end |-> d2 + 1,
              nums |-> << parseInt(buf, a1, a2 - 1), parseInt(buf, b1, b2 - 1),
                          parseInt(buf, c1, c2 - 1), parseInt(buf, d1, d2 - 1) >>]
        ELSE NoMatch

(***************************************************************************)
(* The whole expression tried at start index i: the optional group 1       *)
(* ([a-zA-Z\s]+)? takes the maximal run of label characters (a shorter run *)
(* is followed by a label character, never by "["), then the bracket.      *)
(***************************************************************************)
MatchAt(buf, i) ==
    LET e == LabelEnd(buf, i)
        m == MatchBracket(buf, e)
    IN  [ok |-> m.ok, end |-> m.end, nums |-> m.nums,
         group1 |-> SubSeq(buf, i, e - 1), hasGroup1 |-> e > i]

\* String.prototype.trim
RECURSIVE TrimLeft(_)
TrimLeft(s) == IF s # <<>> /\ IsSpace(Head(s)) THEN TrimLeft(Tail(s)) ELSE s
RECURSIVE TrimRight(_)
TrimRight(s) ==
    IF s # <<>> /\ IsSpace(s[Len(s)]) THEN TrimRight(SubSeq(s, 1, Len(s) - 1)) ELSE s
trim(s) == TrimRight(TrimLeft(s))

\* s.split(' ').pop(): what follows the last space character
RECURSIVE SplitPop(_)
SplitPop(s) ==
    IF s = <<>> THEN <<>>
    ELSE IF s[Len(s)] = " " THEN <<>>
    ELSE SplitPop(SubSeq(s, 1, Len(s) - 1)) \o <<s[Len(s)]>>

ObjectLabel == <<"O","b","j","e","c","t">>

\* (rawLabel || 'Object').split(' ').pop() || 'Object'
LabelOf(m) ==
    LET rawLabel == IF m.hasGroup1 THEN trim(m.group1) ELSE <<>>
        base     == IF rawLabel = <<>> THEN ObjectLabel ELSE rawLabel
        last     == SplitPop(base)
    IN  IF last = <<>> THEN ObjectLabel ELSE last

(***************************************************************************)
(* boxRegex.exec with lastIndex lo on a text that ends at hi: the start of *)
(* the leftmost match in lo..hi, 0 when there is none.  The range is       *)
(* searched by halves, left half first.                                    *)
(***************************************************************************)
RECURSIVE FirstMatchIn(_, _, _)
FirstMatchIn(buf, lo, hi) ==
    IF lo > hi THEN 0
    ELSE IF lo = hi THEN (IF MatchAt(buf, lo).ok THEN lo ELSE 0)
    ELSE LET mid  == (lo + hi) \div 2
             left == FirstMatchIn(buf, lo, mid)
         IN  IF left # 0 THEN left ELSE FirstMatchIn(buf, mid + 1, hi)

(***************************************************************************)
(* while ((match = boxRegex.exec(textToScan)) !== null): the global regex  *)
(* finds the leftmost match at or after lastIndex i, pushes the box and    *)
(* continues after the match.  The result is foundBoxes without the        *)
(* timestamp.                                                              *)
(***************************************************************************)
RECURSIVE ScanFrom(_, _)
ScanFrom(buf, i) ==
    LET s == FirstMatchIn(buf, i, Len(buf))
    IN  IF s = 0 THEN <<>>
        ELSE LET m == MatchAt(buf, s)
             IN  << [label |-> LabelOf(m), ymin |-> m.nums[1], xmin |-> m.nums[2],
                     ymax |-> m.nums[3], xmax |-> m.nums[4]] >>
                 \o ScanFrom(buf, m.end)

ScanBoxes(buf) == ScanFrom(buf, 1)


(***************************************************************************)
(* Program constants.                                                      *)
(***************************************************************************)
BufferCap == 500          \* processingBufferRef keeps the last 500 characters
PruneTTL == 3000          \* a box is kept while now - timestamp < 3000
TrackThreshold == 200     \* let minDistance = 200

\* a buffer that is assigned the new text instead of being extended by it
AppendToBufferNoCarry(buf, newText) == newText

\* a buffer that keeps its first 500 characters when longer
AppendToBufferKeepHead(buf, newText) ==
    LET b == buf \o newText
    IN  IF Len(b) > BufferCap THEN SubSeq(b, 1, BufferCap) ELSE b

\* processingBufferRef.current += newText, then slice(-500) when longer
AppendToBuffer(buf, newText) ==
    LET b == buf \o newText
    IN  IF Len(b) > BufferCap THEN SubSeq(b, Len(b) - BufferCap + 1, Len(b)) ELSE b

(***************************************************************************)
(* calculateDistance: centres are (min+max)/2, the distance is the square  *)
(* root of dx^2 + dy^2.  The model keeps 4 * distance^2, an integer, and   *)
(* compares it with 4 * minDistance^2: the two orders agree because the    *)
(* square root is monotone and exact on these values.                      *)
(***************************************************************************)
Sq(x) == x * x
calculateDistance4Sq(box1, box2) ==
    Sq((box1.xmin + box1.xmax) - (box2.xmin + box2.xmax))
  + Sq((box1.ymin + box1.ymax) - (box2.ymin + box2.ymax))

\* a search that does not lower minDistance: the last box below the threshold
RECURSIVE BestMatchFromLastBelow(_, _, _, _, _)
BestMatchFromLastBelow(boxes, newBox, idx, minDist4Sq, best) ==
    IF idx > Len(boxes) THEN best
    ELSE IF /\ toLowerCase(boxes[idx].label) = toLowerCase(newBox.label)
            /\ calculateDistance4Sq(boxes[idx], newBox) < minDist4Sq
         THEN BestMatchFromLastBelow(boxes, newBox, idx + 1, minDist4Sq, idx)
         ELSE BestMatchFromLastBelow(boxes, newBox, idx + 1, minDist4Sq, best)

\* nextBoxes.forEach((existingBox, idx) => ...): index of the best match, 0 for -1
RECURSIVE BestMatchFrom(_, _, _, _, _)
BestMatchFrom(boxes, newBox, idx, minDist4Sq, best) ==
    IF idx > Len(boxes) THEN best
    ELSE IF /\ toLowerCase(boxes[idx].label) = toLowerCase(newBox.label)
            /\ calculateDistance4Sq(boxes[idx], newBox) < minDist4Sq
         THEN BestMatchFrom(boxes, newBox, idx + 1,
                            calculateDistance4Sq(boxes[idx], newBox), idx)
         ELSE BestMatchFrom(boxes, newBox, idx + 1, minDist4Sq, best)

BestMatchIndex(boxes, newBox) ==
    BestMatchFrom(boxes, newBox, 1, 4 * Sq(TrackThreshold), 0)

\* one iteration of foundBoxes.forEach: update the best match or push a new
\* box whose id is the value drawn by Math.random()
ReconcileOne(boxes, newBox, t, rnd) ==
    LET best == BestMatchIndex(boxes, newBox)
        fresh(id) == [id |-> id, label |-> newBox.label,
                      ymin |-> newBox.ymin, xmin |-> newBox.xmin,
                      ymax |-> newBox.ymax, xmax |-> newBox.xmax, timestamp |-> t]
    IN  IF best # 0
        THEN [boxes EXCEPT ![best] = fresh(boxes[best].id)]
        ELSE Append(boxes, fresh(rnd))

\* the updater passed to setDetectedBoxes: foundBoxes applied in order
RECURSIVE ReconcileFrom(_, _, _, _, _)
ReconcileFrom(boxes, found, i, t, rnds) ==
    IF i > Len(found) THEN boxes
    ELSE ReconcileFrom(ReconcileOne(boxes, found[i], t, rnds[i]), found, i + 1, t, rnds)

\* an updater that starts from the list of the first render, which is empty,
\* instead of the list React passes to it
ReconcileBatchStale(boxes, found, t, rnds) == ReconcileFrom(<<>>, found, 1, t, rnds)

ReconcileBatch(boxes, found, t, rnds) == ReconcileFrom(boxes, found, 1, t, rnds)

\* the iterations of foundBoxes.forEach that find no match and so push a new
\* box: the only ones that call Math.random() (the ids drawn do not influence
\* the matching)
PushIndices(boxes, found, t) ==
    { i \in DOMAIN found :
        BestMatchIndex(ReconcileBatch(boxes, SubSeq(found, 1, i - 1), t,
                                      [j \in DOMAIN found |-> 1]),
                       found[i]) = 0 }

\* a sweep that keeps a box while now - timestamp <= 3000
PruneBoxesInclusive(boxes, t) ==
    SelectSeq(boxes, LAMBDA b : t - b.timestamp <= PruneTTL)

\* the updater of the pruning interval
PruneBoxes(boxes, t) ==
    SelectSeq(boxes, LAMBDA b : t - b.timestamp < PruneTTL)

Max(a, b) == IF a >= b THEN a ELSE b

\* a scheduler that takes the clock and forgets the cursor
CursorAtArrivalClockOnly(cursor, currentTime) == currentTime

\* nextStartTimeRef.current = Math.max(nextStartTimeRef.current, ctx.currentTime)
CursorAtArrival(cursor, currentTime) == Max(cursor, currentTime)

(***************************************************************************)
(* Bounds of the model.                                                    *)
(***************************************************************************)
MaxSessions == 3     \* calls of startSession
MaxSessionMsgs == 1  \* messages handled in the life-cycle specification
MaxAudioMsgs == 3    \* messages handled in the audio specification
MaxTextMsgs == 3     \* messages handled in the transcript specification
MaxDeltas == 3       \* output deltas handled in the parser specification
MaxTrackDeltas == 2  \* output deltas handled in the tracker specification
MaxClock == 2        \* ticks of the playback clock per audio context
MaxIds == 2          \* distinct values Math.random() can return
MaxLifeMsgs == 1     \* messages handled in the restart specification
MaxBufDeltas == 3    \* output deltas handled in the buffer specification
MaxMatchDeltas == 2  \* output deltas handled in the matching specification
MaxExpireDeltas == 3 \* output deltas handled in the expiry specification
MaxRestartMsgs == 2  \* messages handled in the two-session specification
MaxCalls == 2        \* calls of startSession in Spec and SpecRestart

Sessions == 1..MaxSessions
IdSpace == 1..MaxIds

NoFeed == [phase |-> "none", rest |-> <<>>, det |-> <<>>, base |-> <<>>, fits |-> TRUE]

VARIABLES
    status,            \* useState ConnectionStatus
    history,           \* useState TranscriptionEntry[]
    detectedBoxes,     \* useState BoundingBox[]
    sessionRef,        \* sessionRef.current: 0 for null, else the session
    srcObject,         \* videoRef.current.srcObject: 0 for null, else the stream
    outputAudioCtx,    \* outputAudioCtxRef.current: 0 for null, else the context
    sources,           \* sourcesRef.current: indices into played
    nextStartTime,     \* nextStartTimeRef.current
    frameIntervalRef,  \* frameIntervalRef.current: 0 for null, else the timer
    processingBuffer,  \* processingBufferRef.current
    currentOutputTranscription,
    currentInputTranscription,
    startPc,           \* per startSession call: "idle", "gum", "connect", "done"
    channel,           \* per session: "none", "opening", "open", "closing", "closed"
    liveStreams,       \* media streams whose tracks have not been stopped
    liveTimers,        \* frame intervals that have not been cleared
    pending,           \* onmessage handlers suspended at await decodeAudioData
    now,               \* Date.now()
    clock,             \* currentTime of the current output AudioContext
    nMsgs,             \* messages handled so far
    played,            \* log of source.start calls: start time, duration, the clock
                       \* read by the handler, interruptions handled before the
                       \* start, audio context, message number of the handler, and
                       \* messages handled before the start
    interrupts,        \* log of handled interruptions
    lastFound,         \* foundBoxes of the latest scan
    stopped,           \* stopSession has run since the latest startSession
    recvIn,            \* input deltas delivered since the latest turn complete
    recvOut,           \* output deltas delivered since the latest turn complete
    expected,          \* the entries the delivered deltas and turn completes call for
    issued,            \* ids given to newly created boxes, in order
    stream,            \* all output deltas delivered so far, concatenated
    closeAt,           \* Date.now() at the latest output delta that holds a "]"
    sess,              \* the latest startSession call and the output deltas
                       \* handled on its channel: their number, the text of the
                       \* first one and the foundBoxes of its scan
    recon,             \* the last iteration of the latest foundBoxes.forEach:
                       \* the list before, the detection, the list after, the time
    sweep,             \* the latest pruning sweep: boxes before, boxes after, time
    runs,              \* the updaters of detectedBoxes React ran in the latest step
                       \* that ran any, in order: list before, list after, time
    feed,              \* rest of an output text whose first part was delivered
    mounted,           \* the App component is mounted
    boxQueue,          \* updates of detectedBoxes React has queued for the next render
    histQueue,         \* updates of history React has queued for the next render
    shown              \* the status of the latest render, which the buttons follow

progVars == << status, history, detectedBoxes, sessionRef, srcObject, outputAudioCtx,
               sources, nextStartTime, frameIntervalRef, processingBuffer,
               currentOutputTranscription, currentInputTranscription >>
envVars == << startPc, channel, liveStreams, liveTimers, pending, now, clock, nMsgs >>
logVars == << played, interrupts, lastFound, stopped >>
textLog == << recvIn, recvOut, expected, issued, stream, closeAt, sess, recon >>
auxLog == << textLog, sweep, runs >>
reactVars == << mounted, boxQueue, histQueue, shown >>
vars == << progVars, envVars, logVars, auxLog, feed, reactVars >>

Init ==
    /\ status = "DISCONNECTED"
    /\ history = <<>>
    /\ detectedBoxes = <<>>
    /\ sessionRef = 0
    /\ srcObject = 0
    /\ outputAudioCtx = 0
    /\ sources = {}
    /\ nextStartTime = 0
    /\ frameIntervalRef = 0
    /\ processingBuffer = <<>>
    /\ currentOutputTranscription = <<>>
    /\ currentInputTranscription = <<>>
    /\ startPc = [k \in Sessions |-> "idle"]
    /\ channel = [k \in Sessions |-> "none"]
    /\ liveStreams = {}
    /\ liveTimers = {}
    /\ pending = {}
    /\ now = 0
    /\ clock = 0
    /\ nMsgs = 0
    /\ played = <<>>
    /\ interrupts = <<>>
    /\ lastFound = <<>>
    /\ stopped = FALSE
    /\ recvIn = <<>>
    /\ recvOut = <<>>
    /\ expected = <<>>
    /\ issued = <<>>
    /\ stream = <<>>
    /\ closeAt = 0
    /\ sess = [call |-> 0, deltas |-> 0, first |-> <<>>, found |-> <<>>]
    /\ recon = [ran |-> FALSE, before |-> <<>>, det |-> <<>>, after |-> <<>>, at |-> 0]
    /\ sweep = [ran |-> FALSE, before |-> <<>>, after |-> <<>>, at |-> 0]
    /\ runs = <<>>
    /\ feed = NoFeed
    /\ mounted = TRUE
    /\ boxQueue = <<>>
    /\ histQueue = <<>>
    /\ shown = "DISCONNECTED"


(***************************************************************************)
(* startSession, one step per await.  The button that calls it is in the   *)
(* latest render when the status of that render is DISCONNECTED, whatever  *)
(* status a callback has set since.  The call is the handler of a click:   *)
(* React renders the status set in such a handler before the browser       *)
(* delivers the next event, so the button is gone when the step ends; the  *)
(* updates that callbacks have queued wait for Render.  A state setter     *)
(* called after the component has been unmounted changes nothing.          *)
(***************************************************************************)
Start(k) ==
    /\ mounted
    /\ shown = "DISCONNECTED"
    /\ startPc[k] = "idle"
    /\ \A j \in Sessions : j < k => startPc[j] # "idle"
    /\ status' = "CONNECTING"
    /\ shown' = "CONNECTING"
    /\ startPc' = [startPc EXCEPT ![k] = "gum"]
    /\ stopped' = FALSE
    /\ sess' = [call |-> k, deltas |-> 0, first |-> <<>>, found |-> <<>>]
    /\ UNCHANGED << history, detectedBoxes, sessionRef, srcObject, outputAudioCtx, sources,
                    nextStartTime, frameIntervalRef, processingBuffer,
                    currentOutputTranscription, currentInputTranscription,
                    channel, liveStreams, liveTimers, pending, now, clock, nMsgs,
                    played, interrupts, lastFound, recvIn, recvOut, expected, issued,
                    stream, closeAt, recon, sweep, runs, feed, mounted, boxQueue, histQueue >>

\* the status the buttons follow once a callback has set the status to st:
\* React renders it inside the call, which a root that renders every update
\* of a callback at once does, with nothing queued; or at the next render
ShownAfter(st) ==
    { shown } \cup (IF mounted /\ boxQueue = <<>> /\ histQueue = <<>> THEN { st } ELSE {})

\* getUserMedia resolves: the stream is attached if videoRef.current holds
\* the video element, the two audio contexts are created (a new output clock)
\* and ai.live.connect opens the channel
GumResolve(k) ==
    /\ startPc[k] = "gum"
    /\ startPc' = [startPc EXCEPT ![k] = "connect"]
    /\ liveStreams' = liveStreams \cup {k}
    /\ srcObject' = IF mounted THEN k ELSE srcObject
    /\ outputAudioCtx' = k
    /\ clock' = 0
    /\ channel' = [channel EXCEPT ![k] = "opening"]
    /\ UNCHANGED << status, history, detectedBoxes, sessionRef, sources, nextStartTime,
                    frameIntervalRef, processingBuffer, currentOutputTranscription,
                    currentInputTranscription, liveTimers, pending, now, nMsgs,
                    played, interrupts, lastFound, stopped, auxLog, feed, reactVars >>

\* getUserMedia rejects: the catch block
GumReject(k) ==
    /\ startPc[k] = "gum"
    /\ startPc' = [startPc EXCEPT ![k] = "done"]
    /\ status' = IF mounted THEN "ERROR" ELSE status
    /\ shown' \in ShownAfter("ERROR")
    /\ UNCHANGED << history, detectedBoxes, sessionRef, srcObject, outputAudioCtx, sources,
                    nextStartTime, frameIntervalRef, processingBuffer,
                    currentOutputTranscription, currentInputTranscription,
                    channel, liveStreams, liveTimers, pending, now, clock, nMsgs,
                    played, interrupts, lastFound, stopped, auxLog, feed, mounted, boxQueue,
                    histQueue >>

\* sessionRef.current = await sessionPromise, once the channel has opened
ConnectResolve(k) ==
    /\ startPc[k] = "connect"
    /\ channel[k] \in {"open", "closed"}
    /\ startPc' = [startPc EXCEPT ![k] = "done"]
    /\ sessionRef' = k
    /\ UNCHANGED << status, history, detectedBoxes, srcObject, outputAudioCtx, sources,
                    nextStartTime, frameIntervalRef, processingBuffer,
                    currentOutputTranscription, currentInputTranscription,
                    channel, liveStreams, liveTimers, pending, now, clock, nMsgs,
                    played, interrupts, lastFound, stopped, auxLog, feed, reactVars >>

\* the channel cannot be opened: sessionPromise rejects, the catch block
ConnectReject(k) ==
    /\ startPc[k] = "connect"
    /\ channel[k] = "opening"
    /\ startPc' = [startPc EXCEPT ![k] = "done"]
    /\ channel' = [channel EXCEPT ![k] = "closed"]
    /\ status' = IF mounted THEN "ERROR" ELSE status
    /\ shown' \in ShownAfter("ERROR")
    /\ UNCHANGED << history, detectedBoxes, sessionRef, srcObject, outputAudioCtx, sources,
                    nextStartTime, frameIntervalRef, processingBuffer,
                    currentOutputTranscription, currentInputTranscription,
                    liveStreams, liveTimers, pending, now, clock, nMsgs,
                    played, interrupts, lastFound, stopped, auxLog, feed, mounted, boxQueue,
                    histQueue >>

\* callbacks.onopen: CONNECTED, and frameIntervalRef takes a new interval
OnOpen(k) ==
    /\ channel[k] = "opening"
    /\ channel' = [channel EXCEPT ![k] = "open"]
    /\ status' = IF mounted THEN "CONNECTED" ELSE status
    /\ shown' \in ShownAfter("CONNECTED")
    /\ frameIntervalRef' = k
    /\ liveTimers' = liveTimers \cup {k}
    /\ UNCHANGED << history, detectedBoxes, sessionRef, srcObject, outputAudioCtx, sources,
                    nextStartTime, processingBuffer, currentOutputTranscription,
                    currentInputTranscription, startPc, liveStreams, pending, now, clock,
                    nMsgs, played, interrupts, lastFound, stopped, auxLog, feed, mounted, boxQueue,
                    histQueue >>

\* callbacks.onerror
OnError(k) ==
    /\ channel[k] \in {"opening", "open"}
    /\ status' = IF mounted THEN "ERROR" ELSE status
    /\ shown' \in ShownAfter("ERROR")
    /\ UNCHANGED << history, detectedBoxes, sessionRef, srcObject, outputAudioCtx, sources,
                    nextStartTime, frameIntervalRef, processingBuffer,
                    currentOutputTranscription, currentInputTranscription,
                    startPc, channel, liveStreams, liveTimers, pending, now, clock, nMsgs,
                    played, interrupts, lastFound, stopped, auxLog, feed, mounted, boxQueue,
                    histQueue >>

(***************************************************************************)
(* stopSession, on the channel map ch: clears the interval held by         *)
(* frameIntervalRef, closes the session held by sessionRef, stops the      *)
(* tracks of the stream attached to the video element when videoRef.current*)
(* holds the element (attached), stops and clears the sources, empties the *)
(* boxes and sets DISCONNECTED.  setDetectedBoxes([]) passes a value: it   *)
(* takes its place behind the updaters React has queued, if any.  The two  *)
(* setters change nothing when the component is not mounted any more       *)
(* (setsState false), and nothing is queued for it then.                   *)
(***************************************************************************)
ClearItem == [kind |-> "clear", found |-> <<>>]

stopSession(ch, attached, setsState) ==
    /\ liveTimers' = liveTimers \ {frameIntervalRef}
    /\ frameIntervalRef' = 0
    /\ channel' = IF sessionRef # 0 /\ ch[sessionRef] = "open"
                  THEN [ch EXCEPT ![sessionRef] = "closing"] ELSE ch
    /\ sessionRef' = 0
    /\ liveStreams' = IF attached THEN liveStreams \ {srcObject} ELSE liveStreams
    /\ srcObject' = IF attached THEN 0 ELSE srcObject
    /\ sources' = {}
    /\ IF ~setsState THEN UNCHANGED << detectedBoxes, status >> /\ boxQueue' = <<>>
       ELSE /\ status' = "DISCONNECTED"
            /\ IF boxQueue = <<>>
               THEN detectedBoxes' = <<>> /\ UNCHANGED boxQueue
               ELSE /\ UNCHANGED detectedBoxes
                    /\ boxQueue' = IF boxQueue[Len(boxQueue)] = ClearItem THEN boxQueue
                                   ELSE Append(boxQueue, ClearItem)
    /\ stopped' = TRUE

\* stop(): the Terminate button, which is in the latest render when the
\* status of that render is CONNECTED, whatever status a callback has set
\* since.  The call is the handler of a click, and the status it sets is
\* rendered before the next event.
Stop ==
    /\ mounted
    /\ shown = "CONNECTED"
    /\ stopSession(channel, TRUE, TRUE)
    /\ shown' = "DISCONNECTED"
    /\ UNCHANGED << history, outputAudioCtx, nextStartTime, processingBuffer,
                    currentOutputTranscription, currentInputTranscription,
                    startPc, pending, now, clock, nMsgs, played, interrupts, lastFound,
                    auxLog, feed, mounted, histQueue >>

\* callbacks.onclose: setStatus(DISCONNECTED); stopSession()
OnClose(k) ==
    /\ channel[k] \in {"open", "closing"}
    /\ stopSession([channel EXCEPT ![k] = "closed"], mounted, mounted)
    /\ shown' \in ShownAfter("DISCONNECTED")
    /\ UNCHANGED << history, outputAudioCtx, nextStartTime, processingBuffer,
                    currentOutputTranscription, currentInputTranscription,
                    startPc, pending, now, clock, nMsgs, played, interrupts, lastFound,
                    auxLog, feed, mounted, histQueue >>

\* the clean-up of the effect of lines 50-54, run when the component is
\* unmounted: stopSession(), in whatever status.  React 17 and later empty
\* videoRef.current before the clean-up runs, React 16 after it (attached).
\* The updates queued for a render are dropped with the component.
Unmount ==
    /\ mounted
    /\ mounted' = FALSE
    /\ \E attached \in BOOLEAN : stopSession(channel, attached, FALSE)
    /\ histQueue' = <<>>
    /\ UNCHANGED << history, outputAudioCtx, nextStartTime, processingBuffer,
                    currentOutputTranscription, currentInputTranscription,
                    startPc, pending, now, clock, nMsgs, played, interrupts, lastFound,
                    auxLog, feed, shown >>

(***************************************************************************)
(* The updates React has queued for the next render.  An updater passed to *)
(* a state setter runs either inside the call, which React does only when  *)
(* nothing is queued for the component, or at the next render, behind the  *)
(* updates queued before it.  It reads Date.now(), Math.random() and the   *)
(* refs when it runs.                                                      *)
(***************************************************************************)
MaxQueue == 1        \* updaters of the pruning interval in the queue of a render

BatchItem(found) == [kind |-> "batch", found |-> found]
PruneItem == [kind |-> "prune", found |-> <<>>]

NothingQueued == boxQueue = <<>> /\ histQueue = <<>>

\* the updaters of the pruning interval in the queue
QueuedPrunes == Cardinality({ i \in DOMAIN boxQueue : boxQueue[i] = PruneItem })

\* the detections of the batches of the queue q
RECURSIVE FoundCount(_)
FoundCount(q) == IF q = <<>> THEN 0 ELSE Len(Head(q).found) + FoundCount(Tail(q))

\* one queued update of detectedBoxes applied at time t to the list acc.boxes;
\* draws are the values Math.random() returns at this render, acc.used of
\* them taken by the updates before
RunItem(acc, item, t, draws) ==
    IF item.kind = "batch"
    THEN LET pushes == PushIndices(acc.boxes, item.found, t)
             rnds == [i \in DOMAIN item.found |->
                        IF i \in pushes
                        THEN draws[acc.used + Cardinality({j \in pushes : j <= i})]
                        ELSE 1]
             after == ReconcileBatch(acc.boxes, item.found, t, rnds)
         IN  [boxes |-> after,
              used |-> acc.used + Cardinality(pushes),
              issued |-> acc.issued \o [i \in 1..(Len(after) - Len(acc.boxes)) |->
                                          after[Len(acc.boxes) + i].id],
              recon |-> [ran |-> TRUE,
                         before |-> ReconcileBatch(acc.boxes,
                                        SubSeq(item.found, 1, Len(item.found) - 1), t, rnds),
                         det |-> item.found[Len(item.found)], after |-> after, at |-> t],
              sweep |-> acc.sweep,
              runs |-> Append(acc.runs, [kind |-> "batch", found |-> item.found,
                                         before |-> acc.boxes, after |-> after, at |-> t])]
    ELSE LET after == IF item.kind = "prune" THEN PruneBoxes(acc.boxes, t) ELSE <<>>
         IN  [acc EXCEPT !.boxes = after,
                         !.sweep = IF item.kind = "prune"
                                   THEN [ran |-> TRUE, before |-> acc.boxes,
                                         after |-> after, at |-> t]
                                   ELSE acc.sweep,
                         !.runs = Append(acc.runs, [kind |-> item.kind, found |-> <<>>,
                                                    before |-> acc.boxes, after |-> after,
                                                    at |-> t])]

\* the queue q applied in order
RECURSIVE RunQueue(_, _, _, _)
RunQueue(acc, q, t, draws) ==
    IF q = <<>> THEN acc
    ELSE RunQueue(RunItem(acc, Head(q), t, draws), Tail(q), t, draws)

RunStart(boxes) ==
    [boxes |-> boxes, used |-> 0, issued |-> <<>>, recon |-> recon, sweep |-> sweep,
     runs |-> <<>>]

\* the calls of Math.random() the queue q makes when applied to boxes
PushCount(boxes, q, t) ==
    RunQueue(RunStart(boxes), q, t, [i \in 1..FoundCount(q) |-> 1]).used

\* text: currentInputTranscription.current / currentOutputTranscription.current
\* as the queued updater of setHistory reads it
QueuedEntry(role) ==
    [role |-> role,
     text |-> IF role = "user" THEN currentInputTranscription
              ELSE currentOutputTranscription]

\* React renders the component: the queued updaters run, in the order of
\* their calls, and the buttons follow the status
Render ==
    /\ mounted
    /\ ~NothingQueued \/ shown # status
    /\ shown' = status
    /\ \E draws \in [1..PushCount(detectedBoxes, boxQueue, now) -> IdSpace] :
       \E r \in { RunQueue(RunStart(detectedBoxes), boxQueue, now, draws) } :
          /\ detectedBoxes' = r.boxes
          /\ issued' = issued \o r.issued
          /\ recon' = r.recon
          /\ sweep' = r.sweep
          /\ runs' = IF boxQueue = <<>> THEN runs ELSE r.runs
    /\ history' = history \o [i \in 1..Len(histQueue) |-> QueuedEntry(histQueue[i])]
    /\ boxQueue' = <<>>
    /\ histQueue' = <<>>
    /\ UNCHANGED << status, sessionRef, srcObject, outputAudioCtx, sources, nextStartTime,
                    frameIntervalRef, processingBuffer, currentOutputTranscription,
                    currentInputTranscription, envVars, logVars, recvIn, recvOut, expected,
                    stream, closeAt, sess, feed, mounted >>

(***************************************************************************)
(* callbacks.onmessage up to its await (or to its end when the message     *)
(* carries no audio).  m is the message; eagerBoxes, eagerUser and         *)
(* eagerModel tell whether React runs the updater of setDetectedBoxes, of  *)
(* the first setHistory and of the second setHistory inside the call (the  *)
(* updater of setHistory then reads the transcription ref before the next  *)
(* line empties it) or queues it for the next render.  The flag of a call  *)
(* the handler does not make is fixed to TRUE.  A message is handled while *)
(* the channel is open and also after session.close(), until the channel   *)
(* has closed.                                                             *)
(* found is foundBoxes, the result of the one scan of the call; rnds[i]    *)
(* is the value Math.random() returns in iteration i, fixed to 1 for the   *)
(* iterations that do not call it.                                         *)
(***************************************************************************)
OnMessage(k, m, eagerUser, eagerModel, eagerBoxes) ==
    /\ channel[k] \in {"open", "closing"}
    /\ nMsgs' = nMsgs + 1
    /\ LET out1 == IF m.hasOut THEN currentOutputTranscription \o m.out
                   ELSE currentOutputTranscription
           in1  == IF ~m.hasOut /\ m.hasIn THEN currentInputTranscription \o m.inp
                   ELSE currentInputTranscription
           buf1 == IF m.hasOut THEN AppendToBuffer(processingBuffer, m.out)
                   ELSE processingBuffer
           flushUser == m.turnComplete /\ in1 # <<>>
           flushModel == m.turnComplete /\ out1 # <<>>
           hasAudio == m.audio /\ outputAudioCtx # 0
       IN  \E found \in { IF m.hasOut THEN ScanBoxes(buf1) ELSE <<>> } :
           LET setsBoxes == mounted /\ found # <<>>
               setsUser == mounted /\ flushUser
               setsModel == mounted /\ flushModel
               bq1 == IF setsBoxes /\ ~eagerBoxes THEN Append(boxQueue, BatchItem(found))
                      ELSE boxQueue
               hq1 == IF setsUser /\ ~eagerUser THEN Append(histQueue, "user")
                      ELSE histQueue
               hq2 == IF setsModel /\ ~eagerModel THEN Append(hq1, "model") ELSE hq1
               hist1 == IF setsUser /\ eagerUser
                        THEN Append(history, [role |-> "user", text |-> in1])
                        ELSE history
               hist2 == IF setsModel /\ eagerModel
                        THEN Append(hist1, [role |-> "model", text |-> out1])
                        ELSE hist1
           IN
              /\ IF setsBoxes THEN eagerBoxes => NothingQueued ELSE eagerBoxes
              /\ IF setsUser THEN eagerUser => (bq1 = <<>> /\ histQueue = <<>>)
                 ELSE eagerUser
              /\ IF setsModel THEN eagerModel => (bq1 = <<>> /\ hq1 = <<>>)
                 ELSE eagerModel
              /\ processingBuffer' = buf1
              /\ lastFound' = IF m.hasOut THEN found ELSE lastFound
              /\ boxQueue' = bq1
              /\ histQueue' = hq2
              /\ IF setsBoxes /\ eagerBoxes
                 THEN \E pushes \in { PushIndices(detectedBoxes, found, now) } :
                      \E rnds \in [1..Len(found) -> IdSpace] :
                         /\ \A i \in DOMAIN found \ pushes : rnds[i] = 1
                         /\ \E boxes1 \in { ReconcileBatch(detectedBoxes, found, now, rnds) } :
                               /\ detectedBoxes' = boxes1
                               /\ issued' = issued \o
                                     [i \in 1..(Len(boxes1) - Len(detectedBoxes)) |->
                                         boxes1[Len(detectedBoxes) + i].id]
                               /\ recon' = [ran |-> TRUE,
                                            before |-> ReconcileBatch(detectedBoxes,
                                                SubSeq(found, 1, Len(found) - 1), now, rnds),
                                            det |-> found[Len(found)], after |-> boxes1,
                                            at |-> now]
                               /\ runs' = << [kind |-> "batch", found |-> found,
                                              before |-> detectedBoxes, after |-> boxes1,
                                              at |-> now] >>
                 ELSE UNCHANGED << detectedBoxes, issued, recon, runs >>
              /\ LET rin  == IF m.hasIn THEN recvIn \o m.inp ELSE recvIn
                     rout == IF m.hasOut THEN recvOut \o m.out ELSE recvOut
                     e1 == IF m.turnComplete /\ rin # <<>>
                           THEN Append(expected, [role |-> "user", text |-> rin]) ELSE expected
                     e2 == IF m.turnComplete /\ rout # <<>>
                           THEN Append(e1, [role |-> "model", text |-> rout]) ELSE e1
                 IN  /\ recvIn' = IF m.turnComplete THEN <<>> ELSE rin
                     /\ recvOut' = IF m.turnComplete THEN <<>> ELSE rout
                     /\ expected' = e2
                     /\ stream' = IF m.hasOut THEN stream \o m.out ELSE stream
                     /\ closeAt' = IF m.hasOut /\ (\E i \in DOMAIN m.out : m.out[i] = "]")
                                   THEN now ELSE closeAt
                     /\ sess' = IF m.hasOut /\ sess.call = k
                                THEN IF sess.deltas = 0
                                     THEN [call |-> k, deltas |-> 1, first |-> m.out,
                                           found |-> found]
                                     ELSE [sess EXCEPT !.deltas = sess.deltas + 1]
                                ELSE sess
              /\ history' = hist2
              /\ currentInputTranscription' = IF flushUser THEN <<>> ELSE in1
              /\ currentOutputTranscription' = IF flushModel THEN <<>> ELSE out1
              /\ IF hasAudio
                 THEN /\ nextStartTime' = CursorAtArrival(nextStartTime, clock)
                      /\ pending' = pending \cup {[hid |-> nMsgs + 1, clk |-> clock,
                                                   ctx |-> outputAudioCtx, chan |-> k,
                                                   interrupted |-> m.interrupted]}
                      /\ UNCHANGED << sources, interrupts >>
                 ELSE IF m.interrupted
                 THEN /\ sources' = {}
                      /\ nextStartTime' = 0
                      /\ interrupts' = Append(interrupts, [clk |-> clock, ctx |-> outputAudioCtx])
                      /\ UNCHANGED pending
                 ELSE UNCHANGED << sources, nextStartTime, interrupts, pending >>
    /\ UNCHANGED << status, sessionRef, srcObject, outputAudioCtx, frameIntervalRef,
                    startPc, channel, liveStreams, liveTimers, now, clock, played, stopped,
                    sweep, mounted, shown >>

\* lines 289-306: the handler after its await
DecodeResume(h, d) ==
    /\ played' = Append(played, [start |-> nextStartTime, dur |-> d, clk |-> h.clk,
                                 epoch |-> Len(interrupts), ctx |-> h.ctx,
                                 hid |-> h.hid, seen |-> nMsgs])
    /\ IF h.interrupted
       THEN /\ sources' = {}
            /\ nextStartTime' = 0
            /\ interrupts' = Append(interrupts, [clk |-> clock, ctx |-> outputAudioCtx])
       ELSE /\ sources' = sources \cup {Len(played) + 1}
            /\ nextStartTime' = nextStartTime + d
            /\ UNCHANGED interrupts

\* decodeAudioData resolves with a buffer of duration d: the rest of the
\* handler h starts the source at the cursor, advances the cursor, adds the
\* source, and then handles the interrupted flag of the same message.  The
\* source is made on the context read at arrival and connected to the
\* outputNode of the startSession call that opened the channel: when the two
\* contexts differ, connect throws and the handler ends there.
DecodeDone(h, d) ==
    /\ h \in pending
    /\ pending' = pending \ {h}
    /\ IF h.ctx # h.chan
       THEN UNCHANGED << played, sources, nextStartTime, interrupts >>
       ELSE DecodeResume(h, d)
    /\ UNCHANGED << status, history, detectedBoxes, sessionRef, srcObject, outputAudioCtx,
                    frameIntervalRef, processingBuffer, currentOutputTranscription,
                    currentInputTranscription, startPc, channel, liveStreams, liveTimers,
                    now, clock, nMsgs, lastFound, stopped, auxLog, feed, reactVars >>


\* decodeAudioData rejects: the handler h ends at the await
DecodeFail(h) ==
    /\ h \in pending
    /\ pending' = pending \ {h}
    /\ UNCHANGED << progVars, startPc, channel, liveStreams, liveTimers, now, clock, nMsgs,
                    logVars, auxLog, feed, reactVars >>

\* the 'ended' listener of a source that has played to its end
SourceEnded(s) ==
    /\ s \in sources
    /\ played[s].ctx = outputAudioCtx => clock >= played[s].start + played[s].dur
    /\ sources' = sources \ {s}
    /\ UNCHANGED << status, history, detectedBoxes, sessionRef, srcObject, outputAudioCtx,
                    nextStartTime, frameIntervalRef, processingBuffer,
                    currentOutputTranscription, currentInputTranscription,
                    envVars, logVars, auxLog, feed, reactVars >>

\* the pruning interval fires, while the component is mounted: React runs
\* the updater inside the call (eager) or queues it for the next render
Prune(eager) ==
    /\ mounted
    /\ IF eager
       THEN /\ NothingQueued
            /\ detectedBoxes' = PruneBoxes(detectedBoxes, now)
            /\ sweep' = [ran |-> TRUE, before |-> detectedBoxes,
                         after |-> PruneBoxes(detectedBoxes, now), at |-> now]
            /\ runs' = << [kind |-> "prune", found |-> <<>>, before |-> detectedBoxes,
                           after |-> PruneBoxes(detectedBoxes, now), at |-> now] >>
            /\ UNCHANGED boxQueue
       ELSE /\ QueuedPrunes < MaxQueue
            /\ boxQueue' = Append(boxQueue, PruneItem)
            /\ UNCHANGED << detectedBoxes, sweep, runs >>
    /\ UNCHANGED << status, history, sessionRef, srcObject, outputAudioCtx, sources,
                    nextStartTime, frameIntervalRef, processingBuffer,
                    currentOutputTranscription, currentInputTranscription,
                    envVars, logVars, textLog, feed, mounted, histQueue, shown >>

\* the playback clock advances
ClockTick ==
    /\ outputAudioCtx # 0
    /\ clock < MaxClock
    /\ clock' = clock + 1
    /\ UNCHANGED << progVars, startPc, channel, liveStreams, liveTimers, pending, now, nMsgs,
                    logVars, auxLog, feed, reactVars >>

\* Date.now() advances to t
Advance(t) ==
    /\ t > now
    /\ now' = t
    /\ UNCHANGED << progVars, startPc, channel, liveStreams, liveTimers, pending, clock, nMsgs,
                    logVars, auxLog, feed, reactVars >>


(***************************************************************************)
(* Inputs.  A message is what onmessage reads of a LiveServerMessage:      *)
(* serverContent.outputTranscription, .inputTranscription, .turnComplete,  *)
(* .modelTurn.parts[0].inlineData.data and .interrupted.                   *)
(***************************************************************************)
EmptyMsg == [hasOut |-> FALSE, out |-> <<>>, hasIn |-> FALSE, inp |-> <<>>,
             turnComplete |-> FALSE, audio |-> FALSE, interrupted |-> FALSE]
OutMsg(t) == [EmptyMsg EXCEPT !.hasOut = TRUE, !.out = t]
InMsg(t) == [EmptyMsg EXCEPT !.hasIn = TRUE, !.inp = t]
OutInMsg(t, u) == [EmptyMsg EXCEPT !.hasOut = TRUE, !.out = t, !.hasIn = TRUE, !.inp = u]
TurnCompleteMsg == [EmptyMsg EXCEPT !.turnComplete = TRUE]
AudioMsg == [EmptyMsg EXCEPT !.audio = TRUE]
InterruptedMsg == [EmptyMsg EXCEPT !.interrupted = TRUE]
AudioInterruptedMsg == [EmptyMsg EXCEPT !.audio = TRUE, !.interrupted = TRUE]

MaxDur == 2          \* longest audio segment
Durations == 1..MaxDur

\* decimal text of a natural number
RECURSIVE Dec(_)
Dec(n) == IF n < 10 THEN <<DigitChars[n + 1]>>
          ELSE Dec(n \div 10) \o <<DigitChars[(n % 10) + 1]>>

\* the text the system instruction asks for: label [ymin, xmin, ymax, xmax]
FormatDet(label, b) ==
    label \o (IF label = <<>> THEN <<>> ELSE <<" ">>) \o <<"[">>
    \o Dec(b[1]) \o <<",", " ">> \o Dec(b[2]) \o <<",", " ">>
    \o Dec(b[3]) \o <<",", " ">> \o Dec(b[4]) \o <<"]">>

\* a detection text together with the detection it spells
DetText(label, b) ==
    [text |-> FormatDet(label, b),
     det |-> [label |-> IF label = <<>> THEN ObjectLabel ELSE label,
              ymin |-> b[1], xmin |-> b[2], ymax |-> b[3], xmax |-> b[4]]]

cup == <<"c","u","p">>
Cup == <<"C","u","p">>
pen == <<"p","e","n">>
\* centres: (50,50); (249,50), at distance 199; (250,50), at distance 200
DetTexts == { DetText(cup, <<0, 0, 100, 100>>), DetText(Cup, <<0, 0, 100, 498>>),
              DetText(Cup, <<0, 0, 100, 500>>), DetText(pen, <<0, 0, 100, 1500>>) }
\* a bracketed group with two integers only
JunkText == <<"n","o"," ","[","1",","," ","2","]">>
WholeTexts == { t.text : t \in DetTexts }
\* a delta of more than 500 characters that ends in a detection: the texts
\* received before it leave the trailing buffer
LongPen == [i \in 1..BufferCap |-> "."] \o FormatDet(pen, <<0, 0, 100, 300>>)
TrackTexts == WholeTexts \cup { LongPen }
\* the texts delivered in two parts
SplitTexts == { DetText(cup, <<0, 0, 100, 100>>), DetText(<<>>, <<7, 8, 9, 10>>) }
\* labels of two words, with a line feed between the words, with a digit,
\* and a text with CR LF line ends before the bracket and inside it
redCup == <<"r","e","d"," ","c","u","p">>
LabelTexts == { FormatDet(redCup, <<1, 2, 3, 4>>),
                <<"a","\n">> \o FormatDet(cup, <<1, 2, 3, 4>>),
                FormatDet(<<"c","u","p","2">>, <<1, 2, 3, 4>>),
                <<"c","u","p","\r","\n","[","1",",","\r","\n","2",",","U+00A0","3",",",
                  " ","4","]">> }
ParseTexts == { DetText(cup, <<20, 30, 45, 50>>).text, JunkText } \cup LabelTexts

\* text without letters, white space or brackets, n characters long
Filler(n) == [i \in 1..n |-> "."]
\* deltas that fill the trailing buffer to 499, 500, 501 characters and beyond,
\* and one that with a detection text before it makes 501 characters
BufferTexts == { Filler(249), Filler(250), Filler(500), <<"x">>,
                 FormatDet(cup, <<1, 2, 3, 4>>), Filler(485) }

\* one delta with a pen at (150,50) and two cups at (50,50) and (250,50);
\* a cup at (200,50); a cup at (100,50)
MatchTexts == { FormatDet(pen, <<0, 0, 100, 300>>) \o <<" ">>
                    \o FormatDet(cup, <<0, 0, 100, 100>>) \o <<" ">>
                    \o FormatDet(Cup, <<0, 0, 100, 500>>),
                FormatDet(cup, <<0, 0, 100, 400>>), FormatDet(cup, <<0, 0, 100, 200>>) }

\* a detection, and text that holds no bracket
ExpireTexts == { FormatDet(cup, <<0, 0, 100, 100>>), <<"o","k"," ">> }

TimePoints == { 1, 3000, 3001 }

ShortOut == <<"a"," ","[","1",",","2",",","3",",","4","]">>
SessionMsgs == { OutMsg(ShortOut), InMsg(<<"h","i">>), TurnCompleteMsg, AudioMsg,
                 InterruptedMsg }
AudioMsgs == { AudioMsg, InterruptedMsg, AudioInterruptedMsg }
TextMsgs == { OutMsg(<<"a">>), OutMsg(<<"b"," ">>), InMsg(<<"x">>), InMsg(<<"y"," ">>),
              OutInMsg(<<"a">>, <<"x">>), TurnCompleteMsg,
              [OutMsg(<<"b">>) EXCEPT !.turnComplete = TRUE] }

(***************************************************************************)
(* Steps of the environment.                                               *)
(***************************************************************************)
DoStart == \E k \in Sessions : Start(k)

\* startSession, called at most n times
StartUpTo(n) == \E k \in Sessions : k <= n /\ Start(k)
DoGumResolve == \E k \in Sessions : GumResolve(k)
DoGumReject == \E k \in Sessions : GumReject(k)
DoConnectResolve == \E k \in Sessions : ConnectResolve(k)
DoConnectReject == \E k \in Sessions : ConnectReject(k)
DoOpen == \E k \in Sessions : OnOpen(k)
DoError == \E k \in Sessions : OnError(k)
DoClose == \E k \in Sessions : OnClose(k)
DoDecodeDone(Durs) == \E h \in pending, d \in Durs : DecodeDone(h, d)
DoDecodeFail == \E h \in pending : DecodeFail(h)
DoSourceEnded == \E s \in sources : SourceEnded(s)
DoAdvance == \E t \in TimePoints : Advance(t)

DoPrune == \E eager \in BOOLEAN : Prune(eager)

\* a message, with every outcome of the updaters of its handler
DoMessage(Msgs, limit) ==
    \E k \in Sessions, m \in Msgs :
    \E eagerUser \in BOOLEAN, eagerModel \in BOOLEAN, eagerBoxes \in BOOLEAN :
        /\ nMsgs < limit
        /\ m.turnComplete \/ (eagerUser /\ eagerModel)
        /\ m.hasOut \/ eagerBoxes
        /\ OnMessage(k, m, eagerUser, eagerModel, eagerBoxes)
        /\ UNCHANGED feed

\* an output text delivered in one delta
DeliverWhole(Texts, limit) ==
    \E k \in Sessions, t \in Texts, eagerBoxes \in BOOLEAN :
        /\ feed.phase # "half"
        /\ nMsgs < limit
        /\ OnMessage(k, OutMsg(t), TRUE, TRUE, eagerBoxes)
        /\ feed' = NoFeed

\* the first i characters of a detection text delivered as one delta
DeliverFirst ==
    \E k \in Sessions, t \in SplitTexts :
        \E i \in 1..(Len(t.text) - 1), eagerBoxes \in BOOLEAN :
            /\ feed.phase # "half"
            /\ nMsgs + 1 < MaxDeltas
            /\ OnMessage(k, OutMsg(SubSeq(t.text, 1, i)), TRUE, TRUE, eagerBoxes)
            /\ feed' = [phase |-> "half", rest |-> SubSeq(t.text, i + 1, Len(t.text)),
                        det |-> t.det, base |-> ScanBoxes(processingBuffer),
                        fits |-> Len(processingBuffer) + Len(t.text) <= BufferCap]

\* the rest of that text delivered as the next delta
DeliverRest ==
    \E k \in Sessions, eagerBoxes \in BOOLEAN :
        /\ feed.phase = "half"
        /\ OnMessage(k, OutMsg(feed.rest), TRUE, TRUE, eagerBoxes)
        /\ feed' = [feed EXCEPT !.phase = "full", !.rest = <<>>]

(***************************************************************************)
(* Specifications.  Spec is the session life cycle with every callback;    *)
(* the others run one session and feed it the inputs of one component.     *)
(***************************************************************************)
Next ==
    \/ StartUpTo(MaxCalls) \/ DoGumResolve \/ DoGumReject \/ DoConnectResolve \/ DoConnectReject
    \/ DoOpen \/ DoError \/ DoClose \/ Stop \/ Unmount
    \/ DoMessage(SessionMsgs, MaxSessionMsgs) \/ Render
    \/ DoDecodeDone({1}) \/ DoDecodeFail \/ DoSourceEnded \/ ClockTick

Spec == Init /\ [][Next]_vars

(***************************************************************************)
(* The life cycle with a restart: startSession called again after          *)
(* stopSession, while the promises and the channel of the earlier call     *)
(* are still to complete.                                                  *)
(***************************************************************************)
LifeMsgs == { OutMsg(ShortOut), AudioMsg }

NextLife ==
    \/ DoStart \/ DoGumResolve \/ DoGumReject \/ DoConnectResolve \/ DoConnectReject
    \/ DoOpen \/ DoError \/ DoClose \/ Stop \/ Unmount
    \/ DoMessage(LifeMsgs, MaxLifeMsgs) \/ Render
    \/ DoDecodeDone({1}) \/ DoDecodeFail \/ DoSourceEnded

SpecLife == Init /\ [][NextLife]_vars

(***************************************************************************)
(* Two sessions one after the other: a session runs, stopSession ends it,  *)
(* and startSession opens the next one.                                    *)
(***************************************************************************)
RestartMsgs == { OutMsg(ShortOut), OutMsg(<<"o","k"," ">>), AudioMsg }

NextRestart ==
    \/ StartUpTo(MaxCalls) \/ DoGumResolve \/ DoOpen \/ DoConnectResolve \/ Stop \/ DoClose
    \/ DoMessage(RestartMsgs, MaxRestartMsgs) \/ Render \/ DoDecodeDone({1}) \/ ClockTick

SpecRestart == Init /\ [][NextRestart]_vars

NextAudio ==
    \/ Start(1) \/ GumResolve(1) \/ OnOpen(1) \/ ConnectResolve(1)
    \/ DoMessage(AudioMsgs, MaxAudioMsgs) \/ Render \/ DoDecodeDone(Durations) \/ DoDecodeFail
    \/ DoSourceEnded \/ ClockTick

SpecAudio == Init /\ [][NextAudio]_vars

NextTrack ==
    \/ Start(1) \/ GumResolve(1) \/ OnOpen(1) \/ ConnectResolve(1)
    \/ DeliverWhole(TrackTexts, MaxTrackDeltas) \/ DoPrune \/ Render \/ DoAdvance

SpecTrack == Init /\ [][NextTrack]_vars

\* no step of this specification reads sessionRef, and the resumption of
\* await sessionPromise, which only sets it, is left out
NextParse ==
    \/ Start(1) \/ GumResolve(1) \/ OnOpen(1)
    \/ DeliverWhole(ParseTexts, MaxDeltas) \/ DeliverFirst \/ DeliverRest \/ Render

SpecParse == Init /\ [][NextParse]_vars

NextBuffer ==
    \/ Start(1) \/ GumResolve(1) \/ OnOpen(1) \/ ConnectResolve(1)
    \/ DeliverWhole(BufferTexts, MaxBufDeltas) \/ Render

SpecBuffer == Init /\ [][NextBuffer]_vars

MatchMsgs == { OutMsg(t) : t \in MatchTexts }

NextMatch ==
    \/ Start(1) \/ GumResolve(1) \/ OnOpen(1) \/ ConnectResolve(1)
    \/ DoMessage(MatchMsgs, MaxMatchDeltas) \/ Render \/ Advance(1)

SpecMatch == Init /\ [][NextMatch]_vars

NextExpire ==
    \/ Start(1) \/ GumResolve(1) \/ OnOpen(1) \/ ConnectResolve(1)
    \/ DeliverWhole(ExpireTexts, MaxExpireDeltas) \/ DoPrune \/ Render \/ DoAdvance

SpecExpire == Init /\ [][NextExpire]_vars

NextText ==
    \/ Start(1) \/ GumResolve(1) \/ OnOpen(1) \/ ConnectResolve(1)
    \/ DoMessage(TextMsgs, MaxTextMsgs) \/ Render

SpecText == Init /\ [][NextText]_vars

(***************************************************************************)
(* The tracked-object list under every schedule of React: output deltas    *)
(* and firings of the pruning interval whose updaters run inside the call  *)
(* or wait for the next render, while Date.now() advances by the time to   *)
(* live.  No step of this specification reads sessionRef, and the          *)
(* resumption of await sessionPromise, which only sets it, is left out.    *)
(***************************************************************************)
MaxRenderMsgs == 2   \* messages handled in the render specification

\* a cup at (50,50) and a pen far from it
RenderMsgs == { OutMsg(FormatDet(cup, <<0, 0, 100, 100>>)),
                OutMsg(FormatDet(pen, <<0, 0, 100, 1500>>)) }

NextRender ==
    \/ Start(1) \/ GumResolve(1) \/ OnOpen(1)
    \/ DoMessage(RenderMsgs, MaxRenderMsgs) \/ DoPrune \/ Render \/ Advance(PruneTTL)

SpecRender == Init /\ [][NextRender]_vars

(***************************************************************************)
(* The pruning sweep on lists whose objects differ in age: a cup, and a    *)
(* delta that pushes the cup's text out of the trailing buffer and ends in *)
(* a pen, so that the pen is stamped and the cup is not.  Updaters run     *)
(* inside the call or at the next render.  The resumption of await         *)
(* sessionPromise is left out, as above.                                   *)
(***************************************************************************)
MaxSweepDeltas == 2  \* output deltas handled in the sweep specification

\* the cup's text first, the long delta after it
SweepMsgs ==
    IF nMsgs = 0 THEN { OutMsg(FormatDet(cup, <<0, 0, 100, 100>>)) } ELSE { OutMsg(LongPen) }

NextSweep ==
    \/ Start(1) \/ GumResolve(1) \/ OnOpen(1)
    \/ DoMessage(SweepMsgs, MaxSweepDeltas) \/ DoPrune \/ Render
    \/ Advance(1) \/ Advance(PruneTTL)

SpecSweep == Init /\ [][NextSweep]_vars


(***************************************************************************)
(* Playback scheduling.                                                    *)
(***************************************************************************)
\* the first source started after the interruption numbered played[i].epoch
FirstOfEpoch(i) ==
    /\ played[i].epoch >= 1
    /\ i = 1 \/ played[i - 1].epoch < played[i].epoch

\* C1: once an interruption has been handled, no source started before it is
\* still in the active set, and the first segment started after it, also one
\* whose decoding was in flight when the interruption arrived, starts at or
\* after the playback clock's value at the interruption.
C1_InterruptResets ==
    /\ \A s \in sources : played[s].epoch = Len(interrupts)
    /\ \A i \in DOMAIN played :
          (FirstOfEpoch(i) /\ interrupts[played[i].epoch].ctx = played[i].ctx)
             => played[i].start >= interrupts[played[i].epoch].clk

\* segments i and i+1 are handled one after the other: no interruption lies
\* between their starts, the message of the second arrives after the first has
\* started, and no other message is handled while the second is decoded
Sequential(i) ==
    /\ played[i].epoch = played[i + 1].epoch
    /\ played[i + 1].hid > played[i].seen
    /\ played[i + 1].seen = played[i + 1].hid

\* C2 as stated: the second of two segments handled one after the other with
\* no interruption between them starts at exactly t1 + d1.
C2_StartsAtEndOfFirst ==
    \A i \in 1..(Len(played) - 1) :
        Sequential(i) => played[i + 1].start = played[i].start + played[i].dur

\* C2 amended: the second segment starts at the later of t1 + d1 and the
\* playback clock read when its message is handled, so never before t1 + d1.
C2_StartsAtEndOrClock ==
    \A i \in 1..(Len(played) - 1) :
        Sequential(i) =>
            /\ played[i + 1].start >= played[i].start + played[i].dur
            /\ played[i + 1].start =
                  IF played[i + 1].clk > played[i].start + played[i].dur
                  THEN played[i + 1].clk
                  ELSE played[i].start + played[i].dur

\* two segments handled one after the other, the clock having passed the end
\* of the first when the second arrives
C2_Witness ==
    \E i \in 1..(Len(played) - 1) :
        /\ Sequential(i)
        /\ played[i + 1].clk > played[i].start + played[i].dur
        /\ played[i + 1].start = played[i + 1].clk


(***************************************************************************)
(* Session life cycle.                                                     *)
(***************************************************************************)
\* a channel event is delivered: channel-open, a message (transcript delta,
\* turn complete, audio segment, interrupted), or the rest of an audio
\* segment's handler
ChannelEvent ==
    DoOpen \/ DoMessage(SessionMsgs, MaxSessionMsgs) \/ DoDecodeDone({1})

\* C3: a channel event delivered after stop() has run is discarded: it leaves
\* the connection state, the tracked objects, the active-playback set, the
\* frame timers and the history as stop() left them.
C3_EventsAfterStopDiscarded ==
    [][(stopped /\ ChannelEvent) =>
          UNCHANGED << status, detectedBoxes, sources, liveTimers, history >>]_vars

\* C4: a channel-error event sets ERROR and tears down as stop() does: the
\* frame timer is cancelled, the capture stream is released, the playback
\* set is cleared and the tracked objects are cleared.
C4_ErrorTearsDown ==
    [][(mounted /\ DoError) =>
          /\ status' = "ERROR"
          /\ frameIntervalRef' = 0 /\ liveTimers' = liveTimers \ {frameIntervalRef}
          /\ srcObject' = 0 /\ liveStreams' = liveStreams \ {srcObject}
          /\ sources' = {}
          /\ detectedBoxes' = <<>>]_vars


(***************************************************************************)
(* Detection parser and identity tracker.                                  *)
(***************************************************************************)
CoordRange == 0..1000

\* C5: a bracketed group with an integer outside [0,1000] creates and updates
\* no tracked object, so every tracked object has its four coordinates in
\* [0,1000].
C5_CoordsInRange ==
    \A i \in DOMAIN detectedBoxes :
        /\ detectedBoxes[i].ymin \in CoordRange
        /\ detectedBoxes[i].xmin \in CoordRange
        /\ detectedBoxes[i].ymax \in CoordRange
        /\ detectedBoxes[i].xmax \in CoordRange

\* the boxes of the latest sweep that satisfy Keep, in their order, are
\* exactly the boxes after the sweep
SweepKeeps(Keep(_)) ==
    LET kept == { i \in DOMAIN sweep.before : Keep(sweep.at - sweep.before[i].timestamp) }
        rank(i) == Cardinality({ j \in kept : j <= i })
    IN  /\ Len(sweep.after) = Cardinality(kept)
        /\ \A i \in kept : sweep.after[rank(i)] = sweep.before[i]

AtMostTTL(age) == age <= PruneTTL
BelowTTL(age) == age < PruneTTL

\* C6 as stated: a sweep removes exactly the objects whose age exceeds 3000 ms
\* and keeps, unchanged, every object whose age is at most 3000 ms.
C6_SweepKeepsUpToTTL == sweep.ran => SweepKeeps(AtMostTTL)

\* C6 amended: a sweep removes exactly the objects whose age is 3000 ms or
\* more and keeps, unchanged, every object whose age is below 3000 ms.
C6_SweepKeepsBelowTTL == sweep.ran => SweepKeeps(BelowTTL)

\* a render has run a batch and, behind it, a sweep that met the object the
\* batch had just stamped and an object aged exactly 3000 ms: the sweep kept
\* the first and removed the second
C6_Witness ==
    /\ Len(runs) = 2 /\ runs[1].kind = "batch" /\ runs[2].kind = "prune"
    /\ sweep.ran /\ sweep.before = runs[2].before /\ sweep.after = runs[2].after
    /\ \E i \in DOMAIN sweep.before : sweep.at - sweep.before[i].timestamp = PruneTTL
    /\ \E i \in DOMAIN sweep.before : sweep.at - sweep.before[i].timestamp = 0
    /\ Len(sweep.after) = Len(sweep.before) - 1

\* a sweep has met an object aged 2999 ms and an object aged 3000 ms, and
\* kept the first only
C6_WitnessAges ==
    /\ sweep.ran
    /\ \E i \in DOMAIN sweep.before : sweep.at - sweep.before[i].timestamp = PruneTTL
    /\ \E i \in DOMAIN sweep.before : sweep.at - sweep.before[i].timestamp = PruneTTL - 1
    /\ Len(sweep.after) = 1 /\ sweep.at - sweep.after[1].timestamp = PruneTTL - 1

\* the entries a turn complete calls for, from the deltas received
FlushEntries(inText, outText) ==
    (IF inText # <<>> THEN << [role |-> "user", text |-> inText] >> ELSE <<>>)
    \o (IF outText # <<>> THEN << [role |-> "model", text |-> outText] >> ELSE <<>>)

\* a message that carries a turn complete and no delta is handled while some
\* delta has been received since the previous turn complete
TurnCompleteStep ==
    /\ nMsgs' = nMsgs + 1
    /\ recvIn # <<>> \/ recvOut # <<>>
    /\ recvIn' = <<>> /\ recvOut' = <<>>
    /\ expected' = expected \o FlushEntries(recvIn, recvOut)

\* C7: a turn complete appends one entry per role with received text, user
\* before model, whose text is the concatenation of that role's deltas since
\* the previous turn complete, so that the history, once React has rendered
\* what was queued for it, is the sequence of those entries; the turn
\* complete empties the two accumulation buffers and leaves the parser's
\* trailing buffer as it was.
C7_TurnCompleteFlushes ==
    [][/\ histQueue' = <<>> => history' = expected'
       /\ TurnCompleteStep =>
             /\ currentInputTranscription' = <<>>
             /\ currentOutputTranscription' = <<>>
             /\ processingBuffer' = processingBuffer]_vars

\* C8: an id given to a new tracked object differs from every id given
\* earlier, whether or not the earlier object is still tracked.
C8_IdsNeverReused ==
    \A i, j \in DOMAIN issued : i # j => issued[i] # issued[j]

\* the tracker was empty, two deltas of one detection each have been handled,
\* the detections have case-insensitively equal labels, and no sweep can have
\* removed a box
TwoDetections ==
    /\ nMsgs = 2
    /\ now < PruneTTL
    /\ Len(lastFound) = 2
    /\ toLowerCase(lastFound[1].label) = toLowerCase(lastFound[2].label)

\* C9: of two such detections, centres less than 200 apart leave one tracked
\* object with the first id and the second box; centres 200 or more apart
\* leave two tracked objects with distinct ids.
C9_TwoDetectionsReconciled ==
    TwoDetections =>
        IF calculateDistance4Sq(lastFound[1], lastFound[2]) < 4 * Sq(TrackThreshold)
        THEN /\ Len(detectedBoxes) = 1
             /\ detectedBoxes[1].id = issued[1]
             /\ detectedBoxes[1].ymin = lastFound[2].ymin
             /\ detectedBoxes[1].xmin = lastFound[2].xmin
             /\ detectedBoxes[1].ymax = lastFound[2].ymax
             /\ detectedBoxes[1].xmax = lastFound[2].xmax
        ELSE /\ Len(detectedBoxes) = 2
             /\ detectedBoxes[1].id # detectedBoxes[2].id

\* C10: a detection text delivered in two consecutive deltas, the whole text
\* staying inside the trailing buffer: the scan after the first delta finds
\* what the buffer held before and nothing more; the scan after the second
\* finds that and one more detection, with the text's four values and label.
C10_SplitDetectionFound ==
    /\ (feed.phase = "half" /\ feed.fits) => lastFound = feed.base
    /\ (feed.phase = "full" /\ feed.fits) => lastFound = Append(feed.base, feed.det)

\* both parts of a split text have been delivered after an earlier detection
C10_Witness ==
    /\ feed.phase = "full" /\ feed.fits
    /\ feed.base # <<>>
    /\ lastFound[Len(lastFound)] = feed.det

(***************************************************************************)
(* The detections a scan is to yield: one per bracketed group of the       *)
(* buffer, labelled by the last white-space-delimited token of the text    *)
(* between the previous group (or the head of the buffer) and the bracket. *)
(***************************************************************************)
\* the longest suffix of s without white space
RECURSIVE LastToken(_)
LastToken(s) ==
    IF s = <<>> \/ IsSpace(s[Len(s)]) THEN <<>>
    ELSE LastToken(SubSeq(s, 1, Len(s) - 1)) \o <<s[Len(s)]>>

\* the label called for by the text buf[lo..j-1] that precedes a bracket at j
TokenLabel(buf, lo, j) ==
    LET tok == LastToken(TrimRight(SubSeq(buf, lo, j - 1)))
    IN  IF tok = <<>> THEN ObjectLabel ELSE tok

RECURSIVE GroupsFrom(_, _, _)
GroupsFrom(buf, i, lo) ==
    IF i > Len(buf) THEN <<>>
    ELSE LET m == MatchBracket(buf, i)
         IN  IF m.ok
             THEN << [label |-> TokenLabel(buf, lo, i), ymin |-> m.nums[1],
                      xmin |-> m.nums[2], ymax |-> m.nums[3], xmax |-> m.nums[4]] >>
                  \o GroupsFrom(buf, m.end, m.end)
             ELSE GroupsFrom(buf, i + 1, lo)

InRange(d) ==
    d.ymin \in CoordRange /\ d.xmin \in CoordRange /\ d.ymax \in CoordRange /\ d.xmax \in CoordRange

\* C11: the scan yields one detection per bracketed group of four integers of
\* the buffer, in order, and for a group with integers in [0,1000] the
\* detection has the four values in the order ymin, xmin, ymax, xmax and the
\* label that is the last white-space-delimited token before the bracket, or
\* "Object" when there is none.
C11_LabelIsLastToken ==
    LET groups == GroupsFrom(processingBuffer, 1, 1)
    IN  nMsgs > 0 =>
           /\ Len(lastFound) = Len(groups)
           /\ \A i \in DOMAIN groups : InRange(groups[i]) => lastFound[i] = groups[i]

\* the same without the label: every group is found with its four values
C11_GroupsFound ==
    LET groups == GroupsFrom(processingBuffer, 1, 1)
    IN  nMsgs > 0 =>
           /\ Len(lastFound) = Len(groups)
           /\ \A i \in DOMAIN groups :
                 [lastFound[i] EXCEPT !.label = <<>>] = [groups[i] EXCEPT !.label = <<>>]

(***************************************************************************)
(* stop().                                                                 *)
(***************************************************************************)
\* a call of stopSession: by the Terminate button, by the onclose callback
\* or by the clean-up that runs when the component is unmounted
StopCall == Stop \/ DoClose \/ Unmount

\* C12: when stop() returns, whatever the state it was called in, no frame
\* timer is running, no capture stream is held, the active-playback set and
\* the tracked-object list are empty and the state is DISCONNECTED (the list
\* and the state are those of a mounted component, the list once React has
\* nothing queued for it).
C12_StopReleasesAll ==
    [][StopCall =>
          /\ liveTimers' = {}
          /\ liveStreams' = {}
          /\ sources' = {}
          /\ (mounted' /\ boxQueue' = <<>>) => detectedBoxes' = <<>>
          /\ mounted' => status' = "DISCONNECTED"]_vars

\* what stop() may release or change that can be observed
StopObservables ==
    << status, detectedBoxes, history, sources, liveTimers, liveStreams >>

\* no session is closed by the step
ClosesNothing == \A k \in Sessions : channel'[k] = "closing" => channel[k] = "closing"

\* C13: stop() called while the state is DISCONNECTED is a no-op: it releases
\* nothing, closes nothing, and leaves the state, the tracked objects, the
\* history, the active-playback set and the timers as they were.
C13_StopWhenDisconnectedNoOp ==
    [][(status = "DISCONNECTED" /\ StopCall) =>
          (UNCHANGED StopObservables /\ ClosesNothing)]_vars

\* the state as a stop() call leaves it: DISCONNECTED, the three refs null,
\* no source, no box
StopPost ==
    /\ status = "DISCONNECTED"
    /\ frameIntervalRef = 0 /\ sessionRef = 0 /\ srcObject = 0
    /\ sources = {} /\ detectedBoxes = <<>>

\* stop() leaves that state, and called again with nothing in between it
\* changes nothing
C13_StopTwiceInARow ==
    [][((Stop \/ DoClose) /\ mounted /\ boxQueue = <<>>) =>
          /\ StopPost'
          /\ StopPost => (UNCHANGED << StopObservables, frameIntervalRef,
                                       sessionRef, srcObject >> /\ ClosesNothing)]_vars

(***************************************************************************)
(* Decode failure.                                                         *)
(***************************************************************************)
\* C14: when the decoding of the audio segment of the first message handled
\* fails, no source is added, nextStartTime has the value it had before the
\* message was handled (0, the initial cursor), and the rest of the message is
\* still processed: its interrupted flag is handled as an interruption.
C14_DecodeFailureDropsSegment ==
    [][\A h \in pending :
          (DecodeFail(h) /\ nMsgs = 1) =>
              /\ sources' = {}
              /\ nextStartTime' = 0
              /\ h.interrupted => Len(interrupts') = Len(interrupts) + 1]_vars

(***************************************************************************)
(* Connection state machine.                                               *)
(***************************************************************************)
\* C15: every change of the connection state is an allowed transition:
\* DISCONNECTED to CONNECTING by start(), CONNECTING to CONNECTED by the
\* channel-open event, any state to ERROR by a failure of the channel or of
\* the start, any state to DISCONNECTED by stop() or channel-close; so the
\* state never becomes CONNECTED from a state other than CONNECTING.
C15_AllowedTransitions ==
    [][status' # status =>
          \/ status = "DISCONNECTED" /\ status' = "CONNECTING" /\ DoStart
          \/ status = "CONNECTING" /\ status' = "CONNECTED" /\ DoOpen
          \/ status' = "ERROR" /\ (DoError \/ DoGumReject \/ DoConnectReject)
          \/ status' = "DISCONNECTED" /\ (Stop \/ DoClose)]_vars

(***************************************************************************)
(* Trailing buffer.                                                        *)
(***************************************************************************)
Min(a, b) == IF a <= b THEN a ELSE b

\* the last min(k, Len(s)) characters of s
LastChars(s, k) == SubSeq(s, Len(s) - Min(k, Len(s)) + 1, Len(s))

\* C16: after every output delta the trailing buffer has at most 500
\* characters and is the last min(500, n) characters of the concatenation of
\* all output deltas received so far, n being the length of the concatenation.
C16_BufferIsStreamTail ==
    /\ Len(processingBuffer) <= BufferCap
    /\ processingBuffer = LastChars(stream, BufferCap)

\* more than 500 characters have been received, the oldest were dropped, and
\* the buffer ends with the detection text delivered last
C16_Witness ==
    /\ Len(stream) > BufferCap
    /\ Len(processingBuffer) = BufferCap
    /\ processingBuffer # SubSeq(stream, 1, BufferCap)
    /\ lastFound # <<>>
    /\ processingBuffer[BufferCap] = "]"

(***************************************************************************)
(* Order of playback.                                                      *)
(***************************************************************************)
\* a step that handles no interruption leaves the cursor where it was or
\* moves it forward
CursorMonotone ==
    Len(interrupts') = Len(interrupts) => nextStartTime' >= nextStartTime

\* of two sources started with no interruption between them, the one started
\* first has the start time that is not later
StartsNonDecreasing ==
    \A i, j \in DOMAIN played :
        (i < j /\ played[i].epoch = played[j].epoch) => played[i].start <= played[j].start

\* of two sources started with no interruption between them, the one started
\* first belongs to the message that arrived first
StartsInArrivalOrder ==
    \A i, j \in DOMAIN played :
        (i < j /\ played[i].epoch = played[j].epoch) => played[i].hid < played[j].hid

\* C17: between two consecutive interruptions the cursor never decreases and
\* the segments are started in the order their messages arrived, with
\* non-decreasing start times, also when a handler is suspended on decoding
\* while the handler of a later message runs.
C17_ArrivalOrderKept ==
    [][CursorMonotone /\ StartsNonDecreasing' /\ StartsInArrivalOrder']_vars

\* the same without the arrival order
C17_MonotoneOnly ==
    [][CursorMonotone /\ StartsNonDecreasing']_vars

(***************************************************************************)
(* Matching of one detection against the tracked objects.                  *)
(***************************************************************************)
BoxOf(b) == << b.ymin, b.xmin, b.ymax, b.xmax >>

\* the tracked objects of list with the detection's label, letter case aside
SameLabel(list, d) ==
    { i \in DOMAIN list : toLowerCase(list[i].label) = toLowerCase(d.label) }

\* those of them at the least centre distance from the detection
Nearest(list, d) ==
    { i \in SameLabel(list, d) :
        \A j \in SameLabel(list, d) :
            calculateDistance4Sq(list[i], d) <= calculateDistance4Sq(list[j], d) }

\* and those of the nearest that are less than 200 away
Hits(list, d) ==
    { i \in Nearest(list, d) : calculateDistance4Sq(list[i], d) < 4 * Sq(TrackThreshold) }

\* C18: a detection reconciled against the tracked objects updates a nearest
\* object among those with its label (letter case aside), and only when that
\* object is less than 200 away: the object keeps its id and takes the
\* detection's box and the time of the update; every other object is left
\* unchanged.  When no such object is less than 200 away none is changed.
C18_NearestSameLabelUpdated ==
    recon.ran =>
        LET b == recon.before
            a == recon.after
            d == recon.det
        IN  IF Hits(b, d) # {}
            THEN /\ Len(a) = Len(b)
                 /\ \E i \in Hits(b, d) :
                       /\ a[i].id = b[i].id
                       /\ BoxOf(a[i]) = BoxOf(d)
                       /\ a[i].timestamp = recon.at
                       /\ \A j \in DOMAIN b : j # i => a[j] = b[j]
            ELSE /\ Len(a) = Len(b) + 1
                 /\ \A j \in DOMAIN b : a[j] = b[j]

\* a render after the clock advanced has run two queued batches, the second
\* on the list the first left.  In its last reconciliation two tracked
\* objects with the detection's label are both less than 200 away, at
\* different distances, next to an object with another label at a distance
\* less than 200; the nearer one, first in the list, took the box
C18_Witness ==
    /\ Len(runs) = 2 /\ runs[1].kind = "batch" /\ runs[2].kind = "batch"
    /\ recon.ran /\ recon.after = runs[2].after /\ recon.at = runs[2].at /\ recon.at > 0
    /\ \E i, j \in SameLabel(recon.before, recon.det) :
          /\ i < j
          /\ i \in Hits(recon.before, recon.det)
          /\ calculateDistance4Sq(recon.before[j], recon.det) < 4 * Sq(TrackThreshold)
          /\ j \notin Nearest(recon.before, recon.det)
          /\ BoxOf(recon.after[i]) # BoxOf(recon.before[i])
    /\ \E k \in DOMAIN recon.before :
          /\ k \notin SameLabel(recon.before, recon.det)
          /\ calculateDistance4Sq(recon.before[k], recon.det) < 4 * Sq(TrackThreshold)

(***************************************************************************)
(* Sweep and batch on the tracked-object list.                             *)
(***************************************************************************)
\* a message with an output delta is handled
BatchStep == nMsgs' = nMsgs + 1 /\ stream' # stream

\* the object b is in the list, as it is
Holds(list, b) == \E i \in DOMAIN list : list[i] = b

\* the step runs updaters of the tracked-object list: those of a render, the
\* one of a firing of the interval, or the one of a batch, run inside the call
RunsUpdaters ==
    \/ boxQueue # <<>> /\ boxQueue' = <<>> /\ Render
    \/ NothingQueued /\ nMsgs' = nMsgs /\ now' = now /\ Prune(TRUE)
    \/ BatchStep /\ lastFound' # <<>> /\ boxQueue' = boxQueue

\* every updater of the step starts from the list the one before it has left,
\* the first from the list before the step, and the last leaves the list of
\* the step
Chained(first, rs, last) ==
    /\ rs # <<>>
    /\ rs[1].before = first
    /\ \A i \in 1..(Len(rs) - 1) : rs[i + 1].before = rs[i].after
    /\ rs[Len(rs)].after = last

\* a sweep keeps every object of its list younger than the time to live, as
\* it is, and adds nothing
SweepOnCurrentList(r) ==
    r.kind = "prune" =>
        /\ \A i \in DOMAIN r.before :
              r.at - r.before[i].timestamp < PruneTTL => Holds(r.after, r.before[i])
        /\ \A j \in DOMAIN r.after : Holds(r.before, r.after[j])

\* a batch keeps every object of its list at its place with its id, and every
\* object it leaves is one of that list, as it was, or has the box and the
\* label of a detection of the batch and the time of the run
BatchOnCurrentList(r) ==
    r.kind = "batch" =>
        /\ Len(r.after) >= Len(r.before)
        /\ \A i \in DOMAIN r.before : r.after[i].id = r.before[i].id
        /\ \A j \in DOMAIN r.after :
              \/ Holds(r.before, r.after[j])
              \/ /\ r.after[j].timestamp = r.at
                 /\ \E f \in DOMAIN r.found :
                       /\ BoxOf(r.found[f]) = BoxOf(r.after[j])
                       /\ r.found[f].label = r.after[j].label

\* C19: the sweep and the matching of a batch are each applied as a whole to
\* the list the other has produced, in every interleaving of the sweep timer,
\* the output deltas and the renders: a sweep loses no object a batch has
\* created or refreshed less than 3000 ms before, and a batch brings back no
\* object a sweep has removed, other than through a detection of its own scan.
C19_SweepAndBatchAtomic ==
    [][RunsUpdaters =>
          /\ Chained(detectedBoxes, runs', detectedBoxes')
          /\ \A i \in DOMAIN runs' :
                SweepOnCurrentList(runs'[i]) /\ BatchOnCurrentList(runs'[i])]_vars

\* one render has run a sweep that removed an object a batch had created,
\* and then a batch queued behind the sweep, on the emptied list
C19_Witness ==
    /\ Len(runs) = 2
    /\ runs[1].kind = "prune" /\ runs[1].before # <<>> /\ runs[1].after = <<>>
    /\ runs[2].kind = "batch"
    /\ detectedBoxes # <<>>
    /\ \A i \in DOMAIN detectedBoxes : detectedBoxes[i].timestamp = runs[2].at

(***************************************************************************)
(* Expiry of a tracked object.                                             *)
(***************************************************************************)
\* C20: once a sweep has run 3000 ms or more after the latest output delta
\* that could complete a bracketed group (the latest delta holding a "]"),
\* no tracked object is left, and none comes back while the deltas that
\* arrive hold no bracketed group.
C20_ExpiresDespiteOtherText ==
    (sweep.ran /\ sweep.at >= closeAt + PruneTTL) => detectedBoxes = <<>>

(***************************************************************************)
(* A session started after stopSession.                                    *)
(***************************************************************************)
\* the first source started on the output context of its session
FirstOfContext(i) == \A j \in 1..(i - 1) : played[j].ctx # played[i].ctx

\* the label and the coordinates of the detections of a scan
DetsOf(found) ==
    { [label |-> found[i].label, ymin |-> found[i].ymin, xmin |-> found[i].xmin,
       ymax |-> found[i].ymax, xmax |-> found[i].xmax] : i \in DOMAIN found }

\* C21: in a session started after stopSession, the first audio segment,
\* when no other message is handled while it is decoded, is started at the
\* value the new playback clock had when its message arrived,
\* and the scan of the first output delta handled on its channel yields only
\* detections that are in the text of that delta.
C21_FreshStateAfterRestart ==
    /\ \A i \in DOMAIN played :
           (played[i].ctx >= 2 /\ FirstOfContext(i) /\ played[i].seen = played[i].hid)
               => played[i].start = played[i].clk
    /\ (sess.call >= 2 /\ sess.deltas >= 1)
           => DetsOf(sess.found) \subseteq DetsOf(ScanBoxes(sess.first))

\* the audio part alone
C21_FirstSegmentAtNewClock ==
    \A i \in DOMAIN played :
        (played[i].ctx >= 2 /\ FirstOfContext(i) /\ played[i].seen = played[i].hid)
               => played[i].start = played[i].clk

\* the text part alone
C21_FirstDeltaOwnText ==
    (sess.call >= 2 /\ sess.deltas >= 1)
        => DetsOf(sess.found) \subseteq DetsOf(ScanBoxes(sess.first))

(***************************************************************************)
(* A start that fails after the devices were acquired.                     *)
(***************************************************************************)
\* startSession call k ends in its catch block because the channel could
\* not be opened
ConnectFails(k) ==
    /\ startPc[k] = "connect" /\ startPc'[k] = "done"
    /\ channel[k] = "opening" /\ channel'[k] = "closed"

\* C22: when opening the channel is rejected after getUserMedia has
\* resolved, the status becomes ERROR and the stream acquired by that call
\* is released, so that no capture device is held by the failed start.
C22_FailedStartReleasesDevices ==
    [][\A k \in Sessions :
          (mounted /\ ConnectFails(k)) => (status' = "ERROR" /\ k \notin liveStreams')]_vars

\* the status part alone
C22_FailedStartSetsError ==
    [][\A k \in Sessions : (mounted /\ ConnectFails(k)) => status' = "ERROR"]_vars

(***************************************************************************)
(* Detections of a truncated buffer.                                       *)
(***************************************************************************)
\* label stands in the stream with no letter before it and none after it
CompleteToken(label) ==
    \E p \in 1..(Len(stream) - Len(label) + 1) :
        /\ SubSeq(stream, p, p + Len(label) - 1) = label
        /\ p = 1 \/ ~IsLetter(stream[p - 1])
        /\ p + Len(label) > Len(stream) \/ ~IsLetter(stream[p + Len(label)])

\* the four values of d are those of a bracketed group of the stream
GroupOfStream(d) ==
    \E g \in DetsOf(ScanBoxes(stream)) :
        g.ymin = d.ymin /\ g.xmin = d.xmin /\ g.ymax = d.ymax /\ g.xmax = d.xmax

\* C23: every detection of a scan has a label that is a complete token of
\* the output text received so far, or "Object", and the four values of a
\* bracketed group of that text, also when the buffer has been cut to its
\* last 500 characters.
C23_NoCutLabel ==
    \A i \in DOMAIN lastFound :
        /\ lastFound[i].label = ObjectLabel \/ CompleteToken(lastFound[i].label)
        /\ GroupOfStream(lastFound[i])

\* the part about the four values alone
C23_CoordinatesFromStream ==
    \A i \in DOMAIN lastFound : GroupOfStream(lastFound[i])

====
